---- MODULE Spec2Model ----
(***************************************************************************)
(* Model of the utilities of the traffic dashboard: the time utilities    *)
(* (src/src/lib/timeUtils.ts: parseISTTimestamp and getHoursAgo), run on a *)
(* host whose local timezone and clock are part of the environment, and    *)
(* the grid coordinate mapper with the grid constants                      *)
(* (src/src/lib/constants.ts), the chart data preparation                  *)
(* (processChartData), and the refresh of the dashboard page               *)
(* (src/src/pages/Index.tsx).                                              *)
(*                                                                         *)
(* Strings are sequences of one-character strings, so that includes,       *)
(* endsWith, slice and replace act on characters as they do in the code.   *)
(* A Date is [nan, sec, ms]: its time value is sec * 1000 + ms             *)
(* milliseconds since 1970-01-01T00:00:00Z (kept in two parts because the  *)
(* time value of a present-day date does not fit a 32-bit integer); nan    *)
(* marks the Invalid Date, whose time value is NaN.                        *)
(***************************************************************************)
EXTENDS Integers, Sequences, FiniteSets, TLC

VARIABLES
    hostOffset,  \* the host's local timezone, minutes east of UTC
    now,         \* the host's clock: the Date that `new Date()` returns
    ticks,       \* how often the clock has advanced
    op,          \* the call that has just run: "idle" (none), "parse", "hoursAgo",
                 \* "hoursAgoInvalid", "cellCenter", "chart"
    timestamp,   \* parseISTTimestamp: the argument of the last call
    result,      \* parseISTTimestamp: the Date the last call returned
    warned,      \* parseISTTimestamp: the last call wrote to console.warn
    threw,       \* parseISTTimestamp: the last call raised to its caller
    date,        \* getHoursAgo: the argument of the last call
    phrase,      \* getHoursAgo: the string the last call returned
    gridDimensions,  \* the exported GRID_DIMENSIONS object
    cell,        \* cellCenter: the arguments of the last call, [x, y] and the grid used
    coord,       \* cellCenter: the coordinate the last call returned
    data,        \* processChartData: the array passed to the last call, as passed
    selectedMetric,  \* processChartData: the metric passed to the last call
    chart,       \* processChartData: the array of points the last call returned
    dataAfter,   \* processChartData: the array passed, as the call left it
    isRefreshing,    \* Index: the isRefreshing state
    lastUpdated,     \* Index: the lastUpdated state
    activeTab,       \* Index: the activeTab state
    disabled,        \* DashboardHeader: the disabled attribute of the rendered Refresh button
    timers,          \* the handleRefresh calls suspended at their await: the time each timer is due
    refreshCount     \* how many handleRefresh calls have been started

chartVars == <<data, selectedMetric, chart, dataAfter>>

pageVars == <<isRefreshing, lastUpdated, activeTab, disabled, timers, refreshCount>>

vars == <<hostOffset, now, ticks, op, timestamp, result, warned, threw, date, phrase,
          gridDimensions, cell, coord, chartVars, pageVars>>

(***************************************************************************)
(* Bounds of the model.                                                    *)
(***************************************************************************)
\* The clock advances at most this many times in a run.
MaxTicks == 2
\* getHoursAgo is called with every date up to this many whole minutes in the past,
MaxMinutes == 130
\* with dates around every whole hour up to this many hours in the past,
MaxHours == 74
\* and with every date up to this many whole minutes in the future.
MaxFutureMinutes == 3
\* cellCenter is called with indices up to this many cells outside the grid.
MaxOutside == 2
\* processChartData is called with arrays of at most this many records.
MaxRecords == 3
\* The Refresh button is clicked at most this many times in a run.
MaxRefreshes == 3

(***************************************************************************)
(* Strings.                                                                *)
(***************************************************************************)
Digits == <<"0", "1", "2", "3", "4", "5", "6", "7", "8", "9">>

IsDigit(c) == \E i \in 1..10 : Digits[i] = c

DigitVal(c) == (CHOOSE i \in 1..10 : Digits[i] = c) - 1

\* The decimal number written by the digits s[a..b].
RECURSIVE NumAt(_, _, _)
NumAt(s, a, b) == IF b < a THEN 0 ELSE NumAt(s, a, b - 1) * 10 + DigitVal(s[b])

AllDigits(s, a, b) == \A i \in a..b : IsDigit(s[i])

\* String.prototype.includes, for a one-character needle.
includes(s, c) == \E i \in 1..Len(s) : s[i] = c

\* String.prototype.endsWith, for a one-character suffix.
endsWith(s, c) == Len(s) > 0 /\ s[Len(s)] = c

\* timestamp.slice(0, -1)
sliceLast(s) == SubSeq(s, 1, Len(s) - 1)

\* timestamp.replace(a, b) with string arguments: the first occurrence only.
replace(s, a, b) ==
    IF includes(s, a)
    THEN LET k == CHOOSE i \in 1..Len(s) : s[i] = a /\ \A j \in 1..(i - 1) : s[j] # a
         IN  [i \in 1..Len(s) |-> IF i = k THEN b ELSE s[i]]
    ELSE s

(***************************************************************************)
(* Dates: the part of ECMAScript's Date the code uses.                     *)
(***************************************************************************)
InvalidDate == [nan |-> TRUE, sec |-> 0, ms |-> 0]

MkDate(sec, ms) == [nan |-> FALSE, sec |-> sec, ms |-> ms]

\* new Date(d.getTime() + delta): delta in milliseconds; NaN stays NaN.
AddMs(d, delta) ==
    IF d.nan THEN InvalidDate
    ELSE LET total == d.ms + delta
         IN  MkDate(d.sec + (total \div 1000), total % 1000)

\* a.getTime() - b.getTime(), for two valid dates less than 24 days apart.
DiffMs(a, b) == (a.sec - b.sec) * 1000 + (a.ms - b.ms)

IsLeap(y) == (y % 4 = 0 /\ y % 100 # 0) \/ y % 400 = 0

DaysInMonth(y, m) ==
    IF m = 2 THEN (IF IsLeap(y) THEN 29 ELSE 28)
    ELSE IF m \in {4, 6, 9, 11} THEN 30 ELSE 31

\* MakeDay: days from 1970-01-01 to the civil date y-m-d.
DaysFromCivil(y, m, d) ==
    LET yy  == IF m <= 2 THEN y - 1 ELSE y
        era == yy \div 400
        yoe == yy - era * 400
        mp  == IF m > 2 THEN m - 3 ELSE m + 9
        doy == (153 * mp + 2) \div 5 + d - 1
        doe == yoe * 365 + yoe \div 4 - yoe \div 100 + doy
    IN  era * 146097 + doe - 719468

\* The civil date of a day number: the inverse of DaysFromCivil.
CivilFromDays(z0) ==
    LET z   == z0 + 719468
        era == z \div 146097
        doe == z - era * 146097
        yoe == (doe - doe \div 1460 + doe \div 36524 - doe \div 146096) \div 365
        doy == doe - (365 * yoe + yoe \div 4 - yoe \div 100)
        mp  == (5 * doy + 2) \div 153
        d   == doy - (153 * mp + 2) \div 5 + 1
        m   == IF mp < 10 THEN mp + 3 ELSE mp - 9
        y   == yoe + era * 400 + (IF m <= 2 THEN 1 ELSE 0)
    IN  [year |-> y, month |-> m, day |-> d]

\* The wall-clock reading of a valid date in the zone `offset` minutes east of
\* UTC: getFullYear/getMonth/getDate/getHours/getMinutes/getSeconds with the
\* host's offset, toLocaleString({timeZone}) with the zone's.
Reading(d, offset) ==
    LET local == d.sec + offset * 60
        c     == CivilFromDays(local \div 86400)
        sod   == local % 86400
    IN  [year |-> c.year, month |-> c.month, day |-> c.day,
         hour |-> sod \div 3600, minute |-> (sod % 3600) \div 60, second |-> sod % 60]

\* The fields written in a string of the shape YYYY-MM-DDTHH:mm:ss...
Fields(s) ==
    [year |-> NumAt(s, 1, 4), month |-> NumAt(s, 6, 7), day |-> NumAt(s, 9, 10),
     hour |-> NumAt(s, 12, 13), minute |-> NumAt(s, 15, 16), second |-> NumAt(s, 18, 19)]

\* The date-time part of the ECMAScript date-time string format:
\* YYYY-MM-DDTHH:mm:ss with every field in range.
DateTimeShape(s) ==
    /\ Len(s) >= 19
    /\ AllDigits(s, 1, 4) /\ s[5] = "-" /\ AllDigits(s, 6, 7) /\ s[8] = "-"
    /\ AllDigits(s, 9, 10) /\ s[11] = "T"
    /\ AllDigits(s, 12, 13) /\ s[14] = ":" /\ AllDigits(s, 15, 16) /\ s[17] = ":"
    /\ AllDigits(s, 18, 19)
    /\ LET f == Fields(s)
       IN  /\ f.month \in 1..12
           /\ f.day \in 1..DaysInMonth(f.year, f.month)
           /\ f.hour \in 0..23 /\ f.minute \in 0..59 /\ f.second \in 0..59

\* What follows the seconds: an optional .sss, then nothing, Z or +HH:mm / -HH:mm.
HasFraction(s) == Len(s) >= 23 /\ s[20] = "." /\ AllDigits(s, 21, 23)

Millis(s) == IF HasFraction(s) THEN NumAt(s, 21, 23) ELSE 0

ZonePart(s) == SubSeq(s, IF HasFraction(s) THEN 24 ELSE 20, Len(s))

ZoneShape(z) ==
    \/ z = <<>>
    \/ z = <<"Z">>
    \/ /\ Len(z) = 6 /\ z[1] \in {"+", "-"} /\ AllDigits(z, 2, 3) /\ z[4] = ":"
       /\ AllDigits(z, 5, 6) /\ NumAt(z, 2, 3) \in 0..23 /\ NumAt(z, 5, 6) \in 0..59

\* The offset a string is read in, minutes east of UTC: the written one, UTC
\* for Z, and the host's local zone when a date-time form carries none.
ZoneOffset(z, host) ==
    IF z = <<>> THEN host
    ELSE IF z = <<"Z">> THEN 0
    ELSE (IF z[1] = "-" THEN -1 ELSE 1) * (NumAt(z, 2, 3) * 60 + NumAt(z, 5, 6))

\* new Date(string): Date.parse on the date-time string format. A string that
\* is not of the format gives the Invalid Date; the constructor never throws.
NewDate(s, host) ==
    IF DateTimeShape(s) /\ ZoneShape(ZonePart(s))
    THEN LET f == Fields(s)
         IN  MkDate(DaysFromCivil(f.year, f.month, f.day) * 86400
                      + f.hour * 3600 + f.minute * 60 + f.second
                      - ZoneOffset(ZonePart(s), host) * 60,
                    Millis(s))
    ELSE InvalidDate

(***************************************************************************)
(* parseISTTimestamp (src/src/lib/timeUtils.ts, lines 1-47).               *)
(*                                                                         *)
(* An argument is [type, chars]: null, undefined, a string with its        *)
(* characters, or (types are erased at run time, and the records come from *)
(* a JSON response) a non-zero number.                                     *)
(***************************************************************************)
Null == [type |-> "null", chars |-> <<>>]

Undefined == [type |-> "undefined", chars |-> <<>>]

Number == [type |-> "number", chars |-> <<>>]

Str(s) == [type |-> "string", chars |-> s]

\* const istOffset = 5.5 * 60 * 60 * 1000
istOffset_WholeHours == 5 * 60 * 60 * 1000
istOffset == (11 * 60 * 60 * 1000) \div 2

\* !timestamp
Falsy_NullOnly(t) == t.type = "null"
Falsy(t) == t.type \in {"null", "undefined"} \/ (t.type = "string" /\ t.chars = <<>>)

\* Lines 8-22: the Date built from the string.
Construct(s, host) ==
    IF includes(s, "T")
    THEN IF endsWith(s, "Z")
         THEN NewDate(sliceLast(s), host)
         ELSE NewDate(s, host)
    ELSE NewDate(replace(s, " ", "T"), host)

\* Line 26: timestamp.endsWith("Z") || timestamp.includes("T"), on the
\* argument as passed (not on the string with its space replaced).
NeedsAdjust_Always(s) == TRUE
NeedsAdjust(s) == endsWith(s, "Z") \/ includes(s, "T")

\* Lines 26-42: the Date returned for the string, given the Date built.
Adjust(s, d) ==
    [threw |-> FALSE,
     value |-> IF NeedsAdjust(s)
               THEN IF endsWith(s, "Z") THEN d ELSE AddMs(d, -istOffset)
               ELSE d]

\* Lines 4-42, the body of the try: what it returns, or that it threw.
\* Only a non-string throws (timestamp.includes is not a function).
TryBody(t, host) ==
    IF t.type # "string"
    THEN [threw |-> TRUE, value |-> InvalidDate]
    ELSE Adjust(t.chars, Construct(t.chars, host))

\* Lines 43-46: the catch warns and returns new Date().
Catch(clock) == [ret |-> clock, warned |-> TRUE, threw |-> FALSE]

\* A parser that rejects what it cannot read instead of returning it.
parseISTTimestamp_Throwing(t, host, clock) ==
    IF Falsy(t)
    THEN [ret |-> clock, warned |-> FALSE, threw |-> FALSE]
    ELSE LET r == TryBody(t, host)
         IN  IF r.threw \/ r.value.nan
             THEN [ret |-> InvalidDate, warned |-> FALSE, threw |-> TRUE]
             ELSE [ret |-> r.value, warned |-> FALSE, threw |-> FALSE]
parseISTTimestamp(t, host, clock) ==
    IF Falsy(t)
    THEN [ret |-> clock, warned |-> FALSE, threw |-> FALSE]
    ELSE LET r == TryBody(t, host)
         IN  IF r.threw
             THEN Catch(clock)
             ELSE [ret |-> r.value, warned |-> FALSE, threw |-> FALSE]

(***************************************************************************)
(* getHoursAgo (src/src/lib/timeUtils.ts, lines 49-68).                    *)
(***************************************************************************)
Plural(n) == IF n = 1 THEN "" ELSE "s"

\* Line 57
MinutesPhrase_AlwaysPlural(diffInMinutes) == ToString(diffInMinutes) \o " minutes ago"
MinutesPhrase_Clamped(diffInMinutes) ==
    IF diffInMinutes < 0 THEN "Just now"
    ELSE ToString(diffInMinutes) \o " minute" \o Plural(diffInMinutes) \o " ago"
MinutesPhrase(diffInMinutes) ==
    ToString(diffInMinutes) \o " minute" \o Plural(diffInMinutes) \o " ago"

\* Lines 59-62
HoursPhrase_AlwaysCompact(diffInHours, diffInMinutes) ==
    ToString(diffInHours) \o "h " \o ToString(diffInMinutes % 60) \o "m ago"
HoursPhrase(diffInHours, diffInMinutes) ==
    LET remainingMinutes == diffInMinutes % 60
    IN  IF remainingMinutes = 0
        THEN ToString(diffInHours) \o " hour" \o Plural(diffInHours) \o " ago"
        ELSE ToString(diffInHours) \o "h " \o ToString(remainingMinutes) \o "m ago"

\* Lines 65-67
DaysPhrase_Rounded(diffInHours) ==
    LET diffInDays == (diffInHours + 12) \div 24
    IN  IF diffInDays = 1 THEN "1 day ago" ELSE ToString(diffInDays) \o " days ago"
DaysPhrase(diffInHours) ==
    LET diffInDays == diffInHours \div 24
    IN  IF diffInDays = 1 THEN "1 day ago" ELSE ToString(diffInDays) \o " days ago"

\* An Invalid Date has the time value NaN: every comparison is false and the
\* day count is NaN.
getHoursAgo(d, clock) ==
    IF d.nan THEN "NaN days ago"
    ELSE LET diffInMs      == DiffMs(clock, d)
             diffInMinutes == diffInMs \div (1000 * 60)
             diffInHours   == diffInMs \div (1000 * 60 * 60)
         IN  IF diffInMinutes = 0 THEN "Just now"
             ELSE IF diffInMinutes < 60 THEN MinutesPhrase(diffInMinutes)
             ELSE IF diffInHours < 24 THEN HoursPhrase(diffInHours, diffInMinutes)
             ELSE DaysPhrase(diffInHours)

(***************************************************************************)
(* The grid: GRID_DIMENSIONS (src/src/lib/constants.ts, lines 14-19), the  *)
(* boundary the coordinate tests assert, and the cell-centre mapper. The   *)
(* mapper's source file (src/lib/coordinateUtils.ts) is not in the         *)
(* repository snapshot: cellCenter is the contract of the design document, *)
(* section 4.1.                                                            *)
(*                                                                         *)
(* Coordinates are integers in units of 10^-7 degree. For the grids of the *)
(* model (15 x 21 and 16 x 24) both steps are even whole numbers of units, *)
(* so every division below is exact: the arithmetic is that of the reals.  *)
(***************************************************************************)
UnitsPerDegree == 10 ^ 7

GRID_DIMENSIONS == [ROWS |-> 24, COLS |-> 16]

\* The 15-column by 21-row grid of the coordinate tests and of the literal scenario.
ScenarioGrid == [ROWS |-> 21, COLS |-> 15]

\* NW = (26.99, 75.65), SE = (26.78, 75.92).
JAIPUR_BOUNDARIES ==
    [NORTH_WEST_LAT |-> 269900000, SOUTH_EAST_LAT |-> 267800000,
     NORTH_WEST_LNG |-> 756500000, SOUTH_EAST_LNG |-> 759200000]

\* Step along latitude = (NW.lat - SE.lat) / rows.
latStep(grid) ==
    (JAIPUR_BOUNDARIES.NORTH_WEST_LAT - JAIPUR_BOUNDARIES.SOUTH_EAST_LAT) \div grid.ROWS

\* Step along longitude = (SE.lng - NW.lng) / columns.
lngStep(grid) ==
    (JAIPUR_BOUNDARIES.SOUTH_EAST_LNG - JAIPUR_BOUNDARIES.NORTH_WEST_LNG) \div grid.COLS

\* The grids whose steps are even whole numbers of units.
ExactGrid(grid) ==
    /\ latStep(grid) * grid.ROWS
          = JAIPUR_BOUNDARIES.NORTH_WEST_LAT - JAIPUR_BOUNDARIES.SOUTH_EAST_LAT
    /\ lngStep(grid) * grid.COLS
          = JAIPUR_BOUNDARIES.SOUTH_EAST_LNG - JAIPUR_BOUNDARIES.NORTH_WEST_LNG
    /\ latStep(grid) % 2 = 0 /\ lngStep(grid) % 2 = 0

\* The corner of the cell, not its centre.
cellCenter_Corner(x, y, grid) ==
    [lat |-> JAIPUR_BOUNDARIES.NORTH_WEST_LAT - latStep(grid) * y,
     lng |-> JAIPUR_BOUNDARIES.NORTH_WEST_LNG + lngStep(grid) * x]

\* The steps taken from the other axis's cell count.
cellCenter_SwappedSteps(x, y, grid) ==
    LET swapped == [ROWS |-> grid.COLS, COLS |-> grid.ROWS]
    IN  [lat |-> JAIPUR_BOUNDARIES.NORTH_WEST_LAT - (latStep(swapped) * (2 * y + 1)) \div 2,
         lng |-> JAIPUR_BOUNDARIES.NORTH_WEST_LNG + (lngStep(swapped) * (2 * x + 1)) \div 2]

\* Rows counted from the southern edge.
cellCenter_SouthOrigin(x, y, grid) ==
    [lat |-> JAIPUR_BOUNDARIES.SOUTH_EAST_LAT + (latStep(grid) * (2 * y + 1)) \div 2,
     lng |-> JAIPUR_BOUNDARIES.NORTH_WEST_LNG + (lngStep(grid) * (2 * x + 1)) \div 2]

\* x and y taken for each other.
cellCenter_Transposed(x, y, grid) ==
    [lat |-> JAIPUR_BOUNDARIES.NORTH_WEST_LAT - (latStep(grid) * (2 * x + 1)) \div 2,
     lng |-> JAIPUR_BOUNDARIES.NORTH_WEST_LNG + (lngStep(grid) * (2 * y + 1)) \div 2]

\* The longitude computed from the row index as well.
cellCenter_RowOnly(x, y, grid) ==
    [lat |-> JAIPUR_BOUNDARIES.NORTH_WEST_LAT - (latStep(grid) * (2 * y + 1)) \div 2,
     lng |-> JAIPUR_BOUNDARIES.NORTH_WEST_LNG + (lngStep(grid) * (2 * y + 1)) \div 2]

\* latitude = NW.lat - latStep * (y + 0.5); longitude = NW.lng + lngStep * (x + 0.5).
cellCenter(x, y, grid) ==
    [lat |-> JAIPUR_BOUNDARIES.NORTH_WEST_LAT - (latStep(grid) * (2 * y + 1)) \div 2,
     lng |-> JAIPUR_BOUNDARIES.NORTH_WEST_LNG + (lngStep(grid) * (2 * x + 1)) \div 2]

(***************************************************************************)
(* processChartData (src/unnamed/part_000, lines 6-39): a copy of the      *)
(* array is sorted by parsed timestamp and mapped to chart points. Of a    *)
(* record the model keeps ts, yellow and red; of a point, timestamp and    *)
(* the values kept for the metric.                                         *)
(***************************************************************************)
\* The value Array.prototype.sort reads from the comparator of lines 11-15,
\* dateA.getTime() - dateB.getTime(), for two parsed dates: its sign, and +0
\* for NaN (either date the Invalid Date).
SortCompare(dateA, dateB) ==
    IF dateA.nan \/ dateB.nan THEN 0
    ELSE IF dateA.sec # dateB.sec THEN (IF dateA.sec < dateB.sec THEN -1 ELSE 1)
    ELSE IF dateA.ms # dateB.ms THEN (IF dateA.ms < dateB.ms THEN -1 ELSE 1)
    ELSE 0

\* The comparator is consistent on the dates of the array (ECMAScript,
\* Array.prototype.sort): equal, before and after are each transitive.
ConsistentComparator(dates) ==
    \A i, j, k \in 1..Len(dates) :
        \A v \in {-1, 0, 1} :
            (SortCompare(dates[i], dates[j]) = v /\ SortCompare(dates[j], dates[k]) = v)
                => SortCompare(dates[i], dates[k]) = v

Orders(n) ==
    {p \in [1..n -> 1..n] : \A i, j \in 1..n : i # j => p[i] # p[j]}

\* The orders sort may leave: for a consistent comparator the one stable
\* ascending order, otherwise any order (implementation-defined).
SortOrders(dates) ==
    LET n == Len(dates)
    IN  IF ConsistentComparator(dates)
        THEN {p \in Orders(n) :
                \A i, j \in 1..n :
                    i < j => LET v == SortCompare(dates[p[i]], dates[p[j]])
                             IN  v < 0 \/ (v = 0 /\ p[i] < p[j])}
        ELSE Orders(n)

\* The point of lines 17-38 for one record.
ChartPoint(point, metric, host, clock) ==
    LET timestamp0 == parseISTTimestamp(Str(point.ts), host, clock).ret
        baseData == [yellow |-> point.yellow, red |-> point.red]
    IN  [timestamp |-> timestamp0,
         values |-> IF metric = "all" THEN baseData
                    ELSE [key \in {metric} |-> baseData[key]]]

\* The outcomes of processChartData(d, metric): the array returned (ret) and
\* the array passed as the call leaves it (data).
processChartData(d, metric, host, clock) ==
    LET dates == [i \in 1..Len(d) |-> parseISTTimestamp(Str(d[i].ts), host, clock).ret]
    IN  {[ret |-> [i \in 1..Len(d) |-> ChartPoint(d[p[i]], metric, host, clock)],
          data |-> d] : p \in SortOrders(dates)}

(***************************************************************************)
(* The inputs of the model.                                                *)
(***************************************************************************)
\* The indices cellCenter is called with: the grid's and a margin around it.
Columns(grid) == (-MaxOutside)..(grid.COLS - 1 + MaxOutside)

Rows(grid) == (-MaxOutside)..(grid.ROWS - 1 + MaxOutside)

NoCell == [x |-> 0, y |-> 0, grid |-> GRID_DIMENSIONS]

NoCoord == [lat |-> 0, lng |-> 0]

\* n written with w decimal digits.
Pad(n, w) == [i \in 1..w |-> Digits[((n \div (10 ^ (w - i))) % 10) + 1]]

\* Asia/Kolkata: UTC+5:30 all year.
FixedZoneOffset == 330

\* Host timezones: Asia/Kolkata, UTC, and UTC-5:00.
HostOffsets == {FixedZoneOffset, 0, -300}

\* Written dates <<year, month, day>>: real calendar days, and a month 13.
CivilDates == {<<2024, 1, 15>>, <<2024, 2, 29>>, <<2024, 12, 31>>, <<2026, 1, 2>>,
               <<2024, 13, 15>>}

\* Written clock times <<hour, minute, second>>.
ClockTimes == {<<0, 0, 0>>, <<9, 10, 16>>, <<12, 0, 0>>, <<14, 30, 0>>,
               <<15, 30, 0>>, <<23, 59, 59>>}

Fractions == {<<>>, <<".", "0", "0", "0">>, <<".", "2", "5", "0">>}

Separators == {"T", " "}

PlusFiveThirty == <<"+", "0", "5", ":", "3", "0">>

Suffixes == {<<>>, <<"Z">>, PlusFiveThirty, <<"+", "0", "0", ":", "0", "0">>}

\* The string written for a date, a separator, a clock time, a fraction and a suffix.
Written(cd, sep, ct, frac, suffix) ==
    Pad(cd[1], 4) \o <<"-">> \o Pad(cd[2], 2) \o <<"-">> \o Pad(cd[3], 2) \o <<sep>>
      \o Pad(ct[1], 2) \o <<":">> \o Pad(ct[2], 2) \o <<":">> \o Pad(ct[3], 2)
      \o frac \o suffix

DateTimeStrings ==
    {Written(cd, sep, ct, frac, suffix) :
        cd \in CivilDates, sep \in Separators, ct \in ClockTimes,
        frac \in Fractions, suffix \in Suffixes}

InvalidDateString == <<"i", "n", "v", "a", "l", "i", "d", "-", "d", "a", "t", "e">>

InvalidTimestampString == <<"i", "n", "v", "a", "l", "i", "d", "-", "t", "i", "m", "e", "s", "t", "a", "m", "p">>

\* Not a date, with a 'T'; and not a date, with a 'T' and a final 'Z'.
NotADateString == <<"N", "O", "T", "-", "A", "-", "D", "A", "T", "E">>

NotADateZString == <<"N", "O", "T", "-", "A", "-", "D", "A", "T", "E", "Z">>

OtherStrings == {<<>>, InvalidDateString, InvalidTimestampString, NotADateString,
                 NotADateZString}

Timestamps ==
    {Null, Undefined, Number} \cup {Str(s) : s \in DateTimeStrings \cup OtherStrings}

\* The records of the arrays passed to processChartData: three readings at
\* different times (one written with a space) and one whose ts is no date.
TrafficRecords ==
    {[ts |-> Written(<<2026, 1, 2>>, "T", <<9, 10, 16>>, <<".", "0", "0", "0">>, <<"Z">>),
      yellow |-> 5, red |-> 12],
     [ts |-> Written(<<2026, 1, 2>>, " ", <<15, 30, 0>>, <<>>, <<>>),
      yellow |-> 8, red |-> 15],
     [ts |-> Written(<<2024, 12, 31>>, "T", <<23, 59, 59>>, <<>>, <<"Z">>),
      yellow |-> 20, red |-> 8],
     [ts |-> InvalidTimestampString, yellow |-> 15, red |-> 0]}

DataArrays == UNION {[1..n -> TrafficRecords] : n \in 0..MaxRecords}

MetricTypes == {"all", "yellow", "red"}

\* The clock when the model starts: 2026-01-02T04:30:00.500Z.
Now0 == MkDate(DaysFromCivil(2026, 1, 2) * 86400 + 4 * 3600 + 30 * 60, 500)

\* The clock advances by a millisecond or by a minute.
TickSteps == {1, 60000}

\* now - date of the dates getHoursAgo is called with, in milliseconds: the
\* start, the second millisecond and the last millisecond of a minute.
SubMinute == {0, 1, 59999}

Durations ==
    {m * 60000 + e : m \in (-MaxFutureMinutes)..MaxMinutes, e \in SubMinute}
      \cup {(h * 60 + r) * 60000 + e : h \in 0..MaxHours, r \in {0, 1, 30, 59}, e \in SubMinute}

(***************************************************************************)
(* The state machine: the environment (host timezone, clock) and the call  *)
(* in progress. The script is single-threaded: a call runs to its return   *)
(* before the next one starts, and the state holds the arguments and the   *)
(* outcome of the call that has just run until Return.                     *)
(***************************************************************************)
Idle ==
    /\ op = "idle"
    /\ timestamp = Null
    /\ result = InvalidDate
    /\ warned = FALSE
    /\ threw = FALSE
    /\ date = InvalidDate
    /\ phrase = ""
    /\ cell = NoCell
    /\ coord = NoCoord
    /\ data = <<>>
    /\ selectedMetric = "all"
    /\ chart = <<>>
    /\ dataAfter = <<>>

Init ==
    /\ hostOffset \in HostOffsets
    /\ now = Now0
    /\ ticks = 0
    /\ gridDimensions = GRID_DIMENSIONS
    /\ Idle
    /\ isRefreshing = FALSE
    /\ lastUpdated = now
    /\ activeTab = "congested"
    /\ disabled = FALSE
    /\ timers = <<>>
    /\ refreshCount = 0

\* Time passes on the host.
Tick ==
    /\ op = "idle"
    /\ ticks < MaxTicks
    /\ \E step \in TickSteps : now' = AddMs(now, step)
    /\ ticks' = ticks + 1
    /\ UNCHANGED <<hostOffset, op, timestamp, result, warned, threw, date, phrase,
                   gridDimensions, cell, coord, chartVars, pageVars>>

\* A call parseISTTimestamp(t).
Parse ==
    /\ op = "idle"
    /\ \E t \in Timestamps :
        LET r == parseISTTimestamp(t, hostOffset, now)
        IN  /\ op' = "parse"
            /\ timestamp' = t
            /\ result' = r.ret
            /\ warned' = r.warned
            /\ threw' = r.threw
    /\ UNCHANGED <<hostOffset, now, ticks, date, phrase, gridDimensions, cell, coord,
                   chartVars, pageVars>>

\* A call getHoursAgo(new Date(now.getTime() - d)).
HoursAgo ==
    /\ op = "idle"
    /\ \E d \in Durations :
        /\ op' = "hoursAgo"
        /\ date' = AddMs(now, -d)
        /\ phrase' = getHoursAgo(AddMs(now, -d), now)
    /\ UNCHANGED <<hostOffset, now, ticks, timestamp, result, warned, threw,
                   gridDimensions, cell, coord, chartVars, pageVars>>

\* A call getHoursAgo(d) with the Invalid Date (a timestamp that did not parse).
HoursAgoInvalid ==
    /\ op = "idle"
    /\ op' = "hoursAgoInvalid"
    /\ date' = InvalidDate
    /\ phrase' = getHoursAgo(InvalidDate, now)
    /\ UNCHANGED <<hostOffset, now, ticks, timestamp, result, warned, threw,
                   gridDimensions, cell, coord, chartVars, pageVars>>

\* The call has returned and its caller goes on.
Return ==
    /\ op # "idle"
    /\ op' = "idle"
    /\ timestamp' = Null
    /\ result' = InvalidDate
    /\ warned' = FALSE
    /\ threw' = FALSE
    /\ date' = InvalidDate
    /\ phrase' = ""
    /\ cell' = NoCell
    /\ coord' = NoCoord
    /\ data' = <<>>
    /\ selectedMetric' = "all"
    /\ chart' = <<>>
    /\ dataAfter' = <<>>
    /\ UNCHANGED <<hostOffset, now, ticks, gridDimensions, pageVars>>

\* A call cellCenter(x, y), the mapper configured with the exported grid
\* dimensions or with the grid of the tests.
CellCenter ==
    /\ op = "idle"
    /\ \E grid \in {gridDimensions, ScenarioGrid} :
        \E x \in Columns(grid), y \in Rows(grid) :
            /\ op' = "cellCenter"
            /\ cell' = [x |-> x, y |-> y, grid |-> grid]
            /\ coord' = cellCenter(x, y, grid)
    /\ UNCHANGED <<hostOffset, now, ticks, timestamp, result, warned, threw, date, phrase,
                   gridDimensions, chartVars, pageVars>>

\* A call processChartData(d, metric). Where the order the sort leaves is
\* implementation-defined, the call returns any of the orders allowed.
ProcessChartData ==
    /\ op = "idle"
    /\ \E d \in DataArrays, metric \in MetricTypes :
        \E r \in processChartData(d, metric, hostOffset, now) :
            /\ op' = "chart"
            /\ data' = d
            /\ selectedMetric' = metric
            /\ chart' = r.ret
            /\ dataAfter' = r.data
    /\ UNCHANGED <<hostOffset, now, ticks, timestamp, result, warned, threw, date, phrase,
                   gridDimensions, cell, coord, pageVars>>

Next ==
    Tick \/ Parse \/ HoursAgo \/ HoursAgoInvalid \/ CellCenter \/ ProcessChartData \/ Return

Spec == Init /\ [][Next]_vars

(***************************************************************************)
(* The dashboard page (src/src/pages/Index.tsx) and its header             *)
(* (src/src/components/DashboardHeader.tsx): the events of the mounted     *)
(* page. State set in a click handler is rendered before the next event is *)
(* handled; state set after the await is rendered by a later task.         *)
(***************************************************************************)
\* The delay of setTimeout(resolve, 1000), in milliseconds.
RefreshDelay == 1000

\* A timer fires when it is due or this many milliseconds later.
TimerLateness == {0, 4}

Tabs == {"congested", "unusual"}

\* The state of the utility calls, none of which is in progress.
utilVars ==
    <<hostOffset, ticks, op, timestamp, result, warned, threw, date, phrase,
      gridDimensions, cell, coord, chartVars>>

\* A click on the Refresh button always reaches onClick.
ClickDispatched_Always(disabledAttribute) == TRUE

\* A click on the Refresh button reaches onClick unless the button is
\* rendered with the disabled attribute (DashboardHeader, lines 31-37).
ClickDispatched(disabledAttribute) == ~disabledAttribute

\* A click on Refresh: handleRefresh runs to its await (lines 30-33), and the
\* page is rendered with the new state.
ClickRefresh ==
    /\ ClickDispatched(disabled)
    /\ refreshCount < MaxRefreshes
    /\ refreshCount' = refreshCount + 1
    /\ isRefreshing' = TRUE
    /\ timers' = Append(timers, AddMs(now, RefreshDelay))
    /\ disabled' = TRUE
    /\ UNCHANGED <<now, lastUpdated, activeTab, utilVars>>

\* The timer of the oldest suspended handleRefresh fires, no earlier than it
\* is due, and the call runs from its await to its end (lines 34-35).
RefreshResumes ==
    /\ timers # <<>>
    /\ \E late \in TimerLateness :
        LET due == Head(timers)
            fired == AddMs(IF DiffMs(now, due) < 0 THEN due ELSE now, late)
        IN  /\ now' = fired
            /\ lastUpdated' = fired
    /\ isRefreshing' = FALSE
    /\ timers' = Tail(timers)
    /\ UNCHANGED <<activeTab, disabled, refreshCount, utilVars>>

\* The page is rendered with the state set since the last render.
Render ==
    /\ disabled # isRefreshing
    /\ disabled' = isRefreshing
    /\ UNCHANGED <<now, isRefreshing, lastUpdated, activeTab, timers, refreshCount,
                   utilVars>>

\* A click on the other tab (onValueChange = setActiveTab).
SelectTab ==
    /\ \E tab \in Tabs \ {activeTab} : activeTab' = tab
    /\ UNCHANGED <<now, isRefreshing, lastUpdated, disabled, timers, refreshCount,
                   utilVars>>

PageNext == Tick \/ ClickRefresh \/ RefreshResumes \/ Render \/ SelectTab

\* The event loop runs every timer that is due and every render scheduled.
PageSpec ==
    Init /\ [][PageNext]_vars /\ WF_vars(RefreshResumes) /\ WF_vars(Render)

(***************************************************************************)
(* Vocabulary of the properties.                                           *)
(***************************************************************************)
Parsed == op = "parse" /\ timestamp.type = "string"

\* The six fields of a reading are the six written in the string s.
ReadsAs(d, offset, s) == ~d.nan /\ Reading(d, offset) = Fields(s)

\* Year, month, day, hour and minute of a reading are those written in s.
ReadsAsToTheMinute(d, offset, s) ==
    /\ ~d.nan
    /\ LET r == Reading(d, offset)
           f == Fields(s)
       IN  /\ r.year = f.year /\ r.month = f.month /\ r.day = f.day
           /\ r.hour = f.hour /\ r.minute = f.minute

\* s is a well-formed date-time with 'T' and the zone part z (none, Z or an offset).
WellFormedWith(s, z) == DateTimeShape(s) /\ ZonePart(s) = z

\* 'T' and a final 'Z' around a well-formed date-time.
ZForm(s) == includes(s, "T") /\ endsWith(s, "Z") /\ WellFormedWith(s, <<"Z">>)

\* 'T', no final 'Z', no offset.
BareForm(s) == includes(s, "T") /\ ~endsWith(s, "Z") /\ WellFormedWith(s, <<>>)

\* A space for the 'T', no final 'Z', no offset.
SpaceForm(s) ==
    /\ ~includes(s, "T") /\ Len(s) >= 11 /\ s[11] = " "
    /\ WellFormedWith(replace(s, " ", "T"), <<>>)

FiveHoursThirty == 5 * 3600000 + 30 * 60000

TestZ == Written(<<2026, 1, 2>>, "T", <<9, 10, 16>>, <<".", "0", "0", "0">>, <<"Z">>)

TestBare == Written(<<2026, 1, 2>>, "T", <<15, 30, 0>>, <<".", "0", "0", "0">>, <<>>)

TestSpace == Written(<<2026, 1, 2>>, " ", <<15, 30, 0>>, <<>>, <<>>)

(***************************************************************************)
(* C1. A timestamp with 'T' and a final 'Z' around a well-formed date-time *)
(* parses to the instant whose reading in the fixed zone (UTC+5:30) is the *)
(* written year, month, day, hour and minute.                              *)
(* Fails: the string without its Z is read in the host's local zone, so    *)
(* the reading is the written one only on a host set to UTC+5:30.          *)
(***************************************************************************)
C1_ZFormReadsAsWrittenInFixedZone ==
    (Parsed /\ ZForm(timestamp.chars))
        => ReadsAsToTheMinute(result, FixedZoneOffset, timestamp.chars)

(***************************************************************************)
(* C2. A well-formed timestamp with 'T', no final 'Z' and no offset parses *)
(* to the instant whose UTC reading is the written clock time.             *)
(* Fails on every host: the string is read in the host's local zone and    *)
(* 5 h 30 min are then subtracted.                                         *)
(***************************************************************************)
C2_BareFormReadsAsWrittenInUTC ==
    (Parsed /\ BareForm(timestamp.chars)) => ReadsAs(result, 0, timestamp.chars)

(***************************************************************************)
(* C3. A non-empty string that is not a parseable date-time makes          *)
(* parseISTTimestamp warn and return the current instant without raising,  *)
(* so the result is a valid instant.                                       *)
(* Fails: new Date(string) does not throw, the catch is not entered, and   *)
(* the Invalid Date is returned without a warning.                         *)
(***************************************************************************)
C3_UnparseableWarnsAndReturnsNow ==
    (Parsed /\ timestamp.chars # <<>> /\ Construct(timestamp.chars, hostOffset).nan)
        => (~threw /\ warned /\ result = now /\ ~result.nan)

(***************************************************************************)
(* C4. A well-formed timestamp with 'T' and the offset +05:30 parses to a  *)
(* Date whose fixed-zone year, month, day, hour, minute and second are the *)
(* written ones.                                                           *)
(* Fails: 5 h 30 min are subtracted from the instant the string names.     *)
(***************************************************************************)
C4_OffsetFormReadsAsWritten ==
    (Parsed /\ includes(timestamp.chars, "T")
            /\ WellFormedWith(timestamp.chars, PlusFiveThirty))
        => ReadsAs(result, FixedZoneOffset, timestamp.chars)

(***************************************************************************)
(* C5. The same well-formed clock time written with 'T' and a final 'Z',   *)
(* and written with 'T', no 'Z' and no offset, parses to two different     *)
(* instants exactly 5 h 30 min apart. Stated for the call of either form   *)
(* against the parse of the other.                                         *)
(***************************************************************************)
C5_ZAndBareFormsAre5h30Apart ==
    /\ (Parsed /\ ZForm(timestamp.chars))
          => LET bare == parseISTTimestamp(Str(sliceLast(timestamp.chars)), hostOffset, now).ret
             IN  /\ ~result.nan /\ ~bare.nan /\ bare # result
                 /\ DiffMs(result, bare) = FiveHoursThirty
    /\ (Parsed /\ BareForm(timestamp.chars))
          => LET z == parseISTTimestamp(Str(timestamp.chars \o <<"Z">>), hostOffset, now).ret
             IN  /\ ~result.nan /\ ~z.nan /\ z # result
                 /\ DiffMs(z, result) = FiveHoursThirty

C5_Witness ==
    /\ Parsed /\ timestamp.chars = TestZ /\ ~result.nan
    /\ BareForm(sliceLast(TestZ))

(***************************************************************************)
(* C6. The instant returned for a well-formed string is that of the string *)
(* alone: a run on a host in any other timezone returns the same instant.  *)
(* Fails: a string without offset is read in the host's local zone.        *)
(***************************************************************************)
C6_ResultIndependentOfHostZone ==
    (Parsed /\ ~result.nan)
        => \A h \in HostOffsets : parseISTTimestamp(timestamp, h, now).ret = result

(***************************************************************************)
(* C7. A well-formed 'YYYY-MM-DD HH:MM:SS' string (a space, no 'T') parses *)
(* to the instant returned for the same clock time written with 'T' and a  *)
(* final 'Z', and no 5 h 30 min shift is applied: the host-local reading   *)
(* of the result is the written time.                                      *)
(***************************************************************************)
C7_SpaceFormParsesAsZForm ==
    (Parsed /\ SpaceForm(timestamp.chars))
        => LET t == replace(timestamp.chars, " ", "T")
           IN  /\ result = parseISTTimestamp(Str(t \o <<"Z">>), hostOffset, now).ret
               /\ ReadsAs(result, hostOffset, t)

C7_Witness ==
    /\ Parsed /\ timestamp.chars = TestSpace
    /\ ReadsAs(result, hostOffset, TestBare)

(***************************************************************************)
(* C8. parseISTTimestamp called with null, with a missing value or with    *)
(* the empty string returns the current instant, does not fail and emits   *)
(* no warning.                                                             *)
(***************************************************************************)
C8_MissingInputReturnsNow ==
    (op = "parse" /\ timestamp \in {Null, Undefined, Str(<<>>)})
        => (result = now /\ ~result.nan /\ ~threw /\ ~warned)

C8_Witness ==
    /\ op = "parse" /\ timestamp = Str(<<>>) /\ result = now /\ ticks > 0

(***************************************************************************)
(* C9. The four invalid timestamp formats: a string that is no date, a     *)
(* 'T' date-time without offset, a space-separated date-time with an       *)
(* offset, and a date-time with month 13.                                  *)
(***************************************************************************)
InvalidFormat(s) ==
    \/ s \in {InvalidDateString, InvalidTimestampString}
    \/ BareForm(s)
    \/ (~includes(s, "T") /\ Len(s) >= 11 /\ s[11] = " "
          /\ WellFormedWith(replace(s, " ", "T"), PlusFiveThirty))
    \/ (Len(s) >= 19 /\ AllDigits(s, 6, 7) /\ NumAt(s, 6, 7) = 13
          /\ ZonePart(s) = PlusFiveThirty)

WholeMinutes == DiffMs(now, date) \div 60000

C10_MinutesRange ==
    (op = "hoursAgo" /\ WholeMinutes \in 0..59)
        => phrase = (IF WholeMinutes = 0 THEN "Just now"
                     ELSE IF WholeMinutes = 1 THEN "1 minute ago"
                     ELSE ToString(WholeMinutes) \o " minutes ago")

C10_Witness ==
    /\ op = "hoursAgo" /\ DiffMs(now, date) = 60000 + 59999
    /\ phrase = "1 minute ago"

(***************************************************************************)
(* C11. For 60 <= whole minutes < 1440, getHoursAgo returns "{h} hour ago" *)
(* (h = 1) or "{h} hours ago" when the minute count is a multiple of 60,   *)
(* and otherwise "{h}h {r}m ago" with h = floor(minutes / 60) and          *)
(* r = minutes mod 60 in 1..59, so that 60 * h + r is the minute count.    *)
(***************************************************************************)
C11_HoursRange ==
    (op = "hoursAgo" /\ WholeMinutes \in 60..1439)
        => LET h == WholeMinutes \div 60
               r == WholeMinutes % 60
           IN  /\ 60 * h + r = WholeMinutes
               /\ phrase = (IF r = 0
                            THEN (IF h = 1 THEN "1 hour ago" ELSE ToString(h) \o " hours ago")
                            ELSE ToString(h) \o "h " \o ToString(r) \o "m ago")

C11_Witness ==
    /\ op = "hoursAgo" /\ DiffMs(now, date) = (5 * 60 + 30) * 60000 + 59999
    /\ phrase = "5h 30m ago"

(***************************************************************************)
(* C12. For whole minutes >= 1440, getHoursAgo returns "1 day ago" or      *)
(* "{days} days ago" with days = floor(whole hours / 24), and nothing of   *)
(* the remaining hours and minutes.                                        *)
(***************************************************************************)
C12_DaysRange ==
    (op = "hoursAgo" /\ WholeMinutes >= 1440)
        => LET days == (DiffMs(now, date) \div 3600000) \div 24
           IN  phrase = (IF days = 1 THEN "1 day ago" ELSE ToString(days) \o " days ago")

C12_Witness ==
    /\ op = "hoursAgo" /\ DiffMs(now, date) = (47 * 60 + 59) * 60000 + 59999
    /\ phrase = "1 day ago"

(***************************************************************************)
(* C13. For a date in the future of now, by 1 ms or more, getHoursAgo      *)
(* returns a phrase: the whole-minute count floor((now - date) / 1 minute) *)
(* is negative, the minutes branch is taken, and the phrase is             *)
(* "{count} minutes ago" with the negative count.                          *)
(***************************************************************************)
C13_FutureDateReturnsPhrase ==
    (op = "hoursAgo" /\ DiffMs(now, date) < 0)
        => (WholeMinutes < 0 /\ phrase = ToString(WholeMinutes) \o " minutes ago")

C13_Witness ==
    /\ op = "hoursAgo" /\ DiffMs(now, date) = -1
    /\ phrase = "-1 minutes ago"


(***************************************************************************)
(* The grid coordinate mapper.                                             *)
(***************************************************************************)
\* The call in progress is a cellCenter call.
Mapped == op = "cellCenter"

\* The indices of the call lie in [0, columns) x [0, rows).
ValidIndex == cell.x \in 0..(cell.grid.COLS - 1) /\ cell.y \in 0..(cell.grid.ROWS - 1)

Abs(n) == IF n < 0 THEN -n ELSE n

ScenarioCorners ==
    {[x |-> 0,  y |-> 0,  lat |-> 269850590, lng |-> 756590730],
     [x |-> 14, y |-> 0,  lat |-> 269850590, lng |-> 759131050],
     [x |-> 0,  y |-> 20, lat |-> 267874310, lng |-> 756590570],
     [x |-> 14, y |-> 20, lat |-> 267874310, lng |-> 759126450]}

\* 0.0001 degree.
CornerTolerance == UnitsPerDegree \div 10000

\* C15: on the 15 x 21 grid cellCenter returns, within 0.0001 degree,
\* (26.985059, 75.659073) for cell (0,0), (26.985059, 75.913105) for (14,0),
\* (26.787431, 75.659057) for (0,20) and (26.787431, 75.912645) for (14,20).
C15_ScenarioCornersWithinTolerance ==
    (Mapped /\ cell.grid = ScenarioGrid) =>
        \A c \in ScenarioCorners :
            (c.x = cell.x /\ c.y = cell.y) =>
                /\ Abs(coord.lat - c.lat) <= CornerTolerance
                /\ Abs(coord.lng - c.lng) <= CornerTolerance

\* C16: for every valid index pair the coordinate returned lies inside the
\* boundary, bounds included.
C16_ValidCellsInsideBoundary ==
    (Mapped /\ ValidIndex) =>
        /\ JAIPUR_BOUNDARIES.SOUTH_EAST_LAT <= coord.lat
        /\ coord.lat <= JAIPUR_BOUNDARIES.NORTH_WEST_LAT
        /\ JAIPUR_BOUNDARIES.NORTH_WEST_LNG <= coord.lng
        /\ coord.lng <= JAIPUR_BOUNDARIES.SOUTH_EAST_LNG

\* The south-east cell of the grid, the closest to two bounds at once.
C16_Witness ==
    /\ Mapped
    /\ cell.x = cell.grid.COLS - 1 /\ cell.y = cell.grid.ROWS - 1
    /\ 2 * (coord.lat - JAIPUR_BOUNDARIES.SOUTH_EAST_LAT) = latStep(cell.grid)
    /\ 2 * (JAIPUR_BOUNDARIES.SOUTH_EAST_LNG - coord.lng) = lngStep(cell.grid)

\* C17: in the grid, latitude strictly decreases southward (cellCenter(x, y1).lat
\* > cellCenter(x, y2).lat for y1 < y2) and longitude strictly increases
\* eastward (cellCenter(x1, y).lng < cellCenter(x2, y).lng for x1 < x2).
C17_StrictlyMonotonic ==
    (Mapped /\ ValidIndex) =>
        /\ \A y2 \in (cell.y + 1)..(cell.grid.ROWS - 1) :
               coord.lat > cellCenter(cell.x, y2, cell.grid).lat
        /\ \A x2 \in (cell.x + 1)..(cell.grid.COLS - 1) :
               coord.lng < cellCenter(x2, cell.y, cell.grid).lng

\* A cell with rows to its south and columns to its east.
C17_Witness ==
    /\ Mapped
    /\ cell.x = 0 /\ cell.y = 0
    /\ coord.lat > cellCenter(0, cell.grid.ROWS - 1, cell.grid).lat
    /\ coord.lng < cellCenter(cell.grid.COLS - 1, 0, cell.grid).lng

\* C18: GRID_DIMENSIONS is 21 rows by 15 columns and never changes after
\* start-up.
C18_GridIs21By15 ==
    gridDimensions.ROWS = 21 /\ gridDimensions.COLS = 15

\* 0.001 degree.
ColumnTolerance == UnitsPerDegree \div 1000

\* C19: the latitude of cellCenter(x, y) does not depend on x, so the
\* latitude difference between row 0 and row 1 is the same for every column;
\* and the longitude of a column differs by at most 0.001 degree between any
\* two of its rows.
C19_StepInvariance ==
    Mapped =>
        /\ \A x2 \in Columns(cell.grid) :
               /\ cellCenter(x2, cell.y, cell.grid).lat = coord.lat
               /\ Abs(cellCenter(x2, 0, cell.grid).lat - cellCenter(x2, 1, cell.grid).lat)
                    = Abs(cellCenter(cell.x, 0, cell.grid).lat
                            - cellCenter(cell.x, 1, cell.grid).lat)
        /\ \A y2 \in Rows(cell.grid) :
               Abs(cellCenter(cell.x, y2, cell.grid).lng - coord.lng) <= ColumnTolerance

\* A cell off the diagonal, whose row and column indices differ.
C19_Witness ==
    /\ Mapped
    /\ cell.x = 3 /\ cell.y = 5
    /\ coord.lat = cellCenter(0, 5, cell.grid).lat
    /\ coord.lng = cellCenter(3, 0, cell.grid).lng

\* The index recovered from a coordinate: the cell the coordinate falls in.
IndexOf(c, grid) ==
    [x |-> (c.lng - JAIPUR_BOUNDARIES.NORTH_WEST_LNG) \div lngStep(grid),
     y |-> (JAIPUR_BOUNDARIES.NORTH_WEST_LAT - c.lat) \div latStep(grid)]

\* C20: cellCenter is reversible: two distinct index pairs map to distinct
\* coordinates, and the index is recovered from the coordinate returned.
C20_Reversible ==
    Mapped =>
        /\ \A x2 \in Columns(cell.grid), y2 \in Rows(cell.grid) :
               cellCenter(x2, y2, cell.grid) = coord => (x2 = cell.x /\ y2 = cell.y)
        /\ IndexOf(coord, cell.grid) = [x |-> cell.x, y |-> cell.y]

\* An index recovered from a coordinate outside the boundary.
C20_Witness ==
    /\ Mapped
    /\ cell.x = -2 /\ cell.y = 1
    /\ IndexOf(coord, cell.grid) = [x |-> -2, y |-> 1]


(***************************************************************************)
(* C22. For a well-formed timestamp that ends with 'Z', the instant        *)
(* returned does not depend on the separator of date and time:             *)
(* 'YYYY-MM-DD HH:MM:SSZ' and 'YYYY-MM-DDTHH:MM:SSZ' parse to the same     *)
(* instant. Stated for the call of either form against the parse of the    *)
(* other.                                                                  *)
(* Fails: the 'T' form loses its Z and is read in the host's local zone,   *)
(* the space form keeps its Z and is read as UTC.                          *)
(***************************************************************************)
\* A space for the 'T' and a final 'Z' around a well-formed date-time.
SpaceZForm(s) ==
    /\ ~includes(s, "T") /\ Len(s) >= 11 /\ s[11] = " " /\ endsWith(s, "Z")
    /\ WellFormedWith(replace(s, " ", "T"), <<"Z">>)

C22_SeparatorDoesNotMatterWithZ ==
    /\ (Parsed /\ SpaceZForm(timestamp.chars))
          => result = parseISTTimestamp(Str(replace(timestamp.chars, " ", "T")),
                                        hostOffset, now).ret
    /\ (Parsed /\ ZForm(timestamp.chars))
          => result = parseISTTimestamp(Str(replace(timestamp.chars, "T", " ")),
                                        hostOffset, now).ret

(***************************************************************************)
(* C21. For every array of records, processChartData returns one point     *)
(* per record, ordered oldest first: the timestamps of the points returned *)
(* are non-decreasing (read for every two points whose timestamps are      *)
(* valid dates), and the array passed is left in its original order.       *)
(* Fails: a record whose ts does not parse gives the Invalid Date (C3),    *)
(* the comparator returns NaN for it, and the order of the records around  *)
(* it is left to the implementation of sort.                               *)
(***************************************************************************)
\* The call in progress is a processChartData call.
Charted == op = "chart"

C21_ChartIsOldestFirst ==
    Charted =>
        /\ Len(chart) = Len(data)
        /\ \E p \in Orders(Len(data)) :
               \A i \in 1..Len(data) :
                   chart[i] = ChartPoint(data[p[i]], selectedMetric, hostOffset, now)
        /\ \A i, j \in 1..Len(chart) :
               (i < j /\ ~chart[i].timestamp.nan /\ ~chart[j].timestamp.nan)
                   => SortCompare(chart[i].timestamp, chart[j].timestamp) <= 0
        /\ dataAfter = data

(***************************************************************************)
(* C23. In the dashboard page refreshes never overlap and always finish:   *)
(* while isRefreshing is true the Refresh button is disabled, so that at   *)
(* most one handleRefresh is in progress; and every handleRefresh started  *)
(* eventually sets lastUpdated to a newer time and resets isRefreshing to  *)
(* false, the only way either state changes back.                          *)
(***************************************************************************)
C23_RefreshesDoNotOverlapAndFinish ==
    /\ [](isRefreshing => disabled)
    /\ [](Len(timers) <= 1 /\ (isRefreshing <=> timers # <<>>))
    /\ [][(lastUpdated' # lastUpdated \/ (isRefreshing /\ ~isRefreshing'))
            => (/\ isRefreshing /\ ~isRefreshing'
                /\ DiffMs(lastUpdated', lastUpdated) >= RefreshDelay
                /\ lastUpdated' = now')]_vars
    /\ \A n \in 1..MaxRefreshes :
           (refreshCount = n /\ isRefreshing) ~> (refreshCount = n /\ ~isRefreshing)

\* The last refresh allowed has finished and the button is enabled again.
C23_Witness ==
    /\ refreshCount = MaxRefreshes
    /\ ~isRefreshing /\ ~disabled /\ timers = <<>>
    /\ lastUpdated = now
    /\ DiffMs(now, Now0) >= MaxRefreshes * RefreshDelay

====
